---- MODULE Spec2Model ----
(***************************************************************************)
(* State-machine model of the four server variants of stm-metro-realtime:  *)
(*   "stoptime"    src/server.js 1-365      (GTFS, nextTwoDepartures)      *)
(*   "cache"       src/server.js 367-681    (cache, rebuildCacheIfNeeded,  *)
(*                                            computeNextTwoDepartures)    *)
(*   "headway"     src/unnamed/part_000     (getCurrentHeadwaySeconds)     *)
(*   "frequencies" src/unnamed/part_001     (getNextTwoText)               *)
(* Times are seconds since midnight, dates are YYYYMMDD numbers (eight     *)
(* digit strings compare lexicographically exactly as the numbers do).     *)
(***************************************************************************)
EXTENDS Integers, Sequences, FiniteSets, TLC

VARIABLES
    deployed,       \* the variant that runs: "stoptime", "cache", "headway", "frequencies"
    clock,          \* the wall clock in the feed's zone: [ymd, sec]
    routes,         \* routes.txt rows of the published feed
    calendar,       \* calendar.txt rows
    calendarDates,  \* calendar_dates.txt rows
    trips,          \* trips.txt rows
    frequencies,    \* frequencies.txt rows
    stopTimes,      \* stop_times.txt rows
    listening,      \* "stoptime": boot() has reached app.listen
    GTFS,           \* "stoptime": the in-memory indexes
    cache,          \* "cache": the module-level cache object
    reqs,           \* "cache": the requests in flight (position and locals)
    gtfs,           \* "headway": the parsed feed and gtfsLoadedAt
    out             \* the last answer (or value returned), with its inputs

feed == <<routes, calendar, calendarDates, trips, frequencies, stopTimes>>
vars == <<deployed, clock, feed, listening, GTFS, cache, reqs, gtfs, out>>

----------------------------------------------------------------------------
(* Labels.  A line of the two-line answer is a record: kind is "Arrive",   *)
(* "min" ("<m> min"), "~min" ("~<m> min"), "dash" ("—"), "hors" ("Hors     *)
(* période de service") or "indispo" ("Données indisponibles").            *)

Line(kind, m) == [kind |-> kind, m |-> m]
Arrive == Line("Arrive", 0)
Min(m) == Line("min", m)
Dash == Line("dash", 0)
Hors == Line("hors", 0)
Indispo == Line("indispo", 0)

\* Math.round(num / den) for den > 0: the nearest integer, halves towards +inf.
MathRound(num, den) == (2 * num + den) \div (2 * den)

\* Math.floor(num / den) for den > 0, in place of Math.ceil.
MathCeil_floor(num, den) == num \div den

\* Math.ceil(num / den) for den > 0.
MathCeil(num, den) == -((-num) \div den)

Max(a, b) == IF a >= b THEN a ELSE b
Min2(a, b) == IF a <= b THEN a ELSE b

formatDeltaToLabel(deltaSec) ==
    IF deltaSec < 60 THEN Arrive ELSE Min(MathRound(deltaSec, 60))

formatAsArriveOrMinutes(departSec, secSinceMidnight) ==
    LET delta == departSec - secSinceMidnight
    IN  IF delta <= 60 THEN Arrive ELSE Min(MathRound(delta, 60))

formatNext(secFromNow) ==
    IF secFromNow <= 60 THEN Arrive ELSE Min(MathRound(secFromNow, 60))

\* the local `format` of computeNextTwoFromHeadway
formatHeadway(sec) ==
    IF sec < 60 THEN Arrive ELSE Line("~min", MathRound(sec, 60))

----------------------------------------------------------------------------
(* The feed's domains.                                                     *)

Services == {"S1", "S2"}
Dates == {20240102, 20240103, 20240104}

\* Intl's weekday part of a date ("Tue", "Wed", ...), then the calendar.txt
\* column it selects (weekdayKeyToronto, weekdayToCalendarField).
WeekdayShort(ymd) ==
    CASE ymd = 20240102 -> "Tue"
      [] ymd = 20240103 -> "Wed"
      [] ymd = 20240104 -> "Thu"
      [] OTHER -> "Fri"

weekdayToCalendarField(weekdayShort) ==
    CASE weekdayShort = "Mon" -> "monday"
      [] weekdayShort = "Tue" -> "tuesday"
      [] weekdayShort = "Wed" -> "wednesday"
      [] weekdayShort = "Thu" -> "thursday"
      [] weekdayShort = "Fri" -> "friday"
      [] weekdayShort = "Sat" -> "saturday"
      [] weekdayShort = "Sun" -> "sunday"
      [] OTHER -> "monday"

\* Date.getDay() indexes ["sunday", ..., "saturday"]: the same column.
dowOf(ymd) == weekdayToCalendarField(WeekdayShort(ymd))

\* Seconds since the epoch, for Date.now(): day index * 86400 + sec.
DayIndex(ymd) == ymd - 20240101
DateNow(c) == DayIndex(c.ymd) * 86400 + c.sec

SeqsUpTo(S, n) == UNION {[1..k -> S] : k \in 0..n}

----------------------------------------------------------------------------
(* Service-day resolution.  A calendar row is [service_id, start_date,     *)
(* end_date, days], days being the weekday columns that hold "1"; a        *)
(* calendar_dates row is [service_id, date, exception_type].               *)

\* CalendarStep without the test of the weekday column
RECURSIVE CalendarStep_anyDay(_, _, _, _)
CalendarStep_anyDay(active, rows, today, weekdayKey) ==
    IF rows = <<>> THEN active
    ELSE LET c == Head(rows)
             runs == ~(today < c.start_date \/ today > c.end_date)
         IN  CalendarStep_anyDay(IF runs THEN active \cup {c.service_id} ELSE active,
                                 Tail(rows), today, weekdayKey)

\* server.js 226-233 and 504-510: the rows of calendar.txt in file order.
RECURSIVE CalendarStep(_, _, _, _)
CalendarStep(active, rows, today, weekdayKey) ==
    IF rows = <<>> THEN active
    ELSE LET c == Head(rows)
             runs == /\ ~(today < c.start_date \/ today > c.end_date)
                     /\ weekdayKey \in c.days
         IN  CalendarStep(IF runs THEN active \cup {c.service_id} ELSE active,
                          Tail(rows), today, weekdayKey)

\* server.js 237-243 and 516-521: the rows of calendar_dates.txt in file order.
RECURSIVE CalendarDatesStep(_, _, _)
CalendarDatesStep(active, rows, today) ==
    IF rows = <<>> THEN active
    ELSE LET cd == Head(rows)
             sid == cd.service_id
             a1 == IF cd.exception_type = "1" THEN active \cup {sid} ELSE active
             a2 == IF cd.exception_type = "2" THEN a1 \ {sid} ELSE a1
         IN  CalendarDatesStep(IF cd.date # today THEN active ELSE a2,
                               Tail(rows), today)

activeServiceIdsForToday(cal, cds, today, weekdayKey) ==
    CalendarDatesStep(CalendarStep({}, cal, today, weekdayKey), cds, today)

\* part_001 97-117: Map service_id -> row, a later row replacing an earlier one.
RECURSIVE calendarMap(_)
calendarMap(rows) ==
    IF rows = <<>> THEN <<>>
    ELSE LET n == Len(rows)
         IN  (rows[n].service_id :> rows[n]) @@ calendarMap(SubSeq(rows, 1, n - 1))

\* part_001 98, 126: Map service_id -> exception_type of today's rows.
RECURSIVE exceptionsMap(_, _)
exceptionsMap(rows, today) ==
    IF rows = <<>> THEN <<>>
    ELSE LET n == Len(rows)
             rest == exceptionsMap(SubSeq(rows, 1, n - 1), today)
         IN  IF rows[n].date = today
             THEN (rows[n].service_id :> rows[n].exception_type) @@ rest
             ELSE rest

loadServiceIdsForToday(cal, cds, today, dow) ==
    LET calM == calendarMap(cal)
        exM == exceptionsMap(cds, today)
        ex(s) == IF s \in DOMAIN exM THEN exM[s] ELSE "undefined"
    IN  {s \in DOMAIN calM :
            /\ calM[s].start_date <= today /\ today <= calM[s].end_date
            /\ ex(s) # "2"
            /\ (ex(s) = "1" \/ dow \in calM[s].days)}

\* Array.prototype.find on calendar: the first row of the service, if any.
RECURSIVE FindCal(_, _)
FindCal(rows, serviceId) ==
    IF rows = <<>> THEN <<>>
    ELSE IF Head(rows).service_id = serviceId THEN <<Head(rows)>>
    ELSE FindCal(Tail(rows), serviceId)

isServiceActive(serviceId, dateStr, dow, cal, cds) ==
    LET ex == {i \in 1..Len(cds) :
                 cds[i].service_id = serviceId /\ cds[i].date = dateStr}
        found == FindCal(cal, serviceId)
    IN  IF \E i \in ex : cds[i].exception_type = "2" THEN FALSE
        ELSE IF \E i \in ex : cds[i].exception_type = "1" THEN TRUE
        ELSE IF found = <<>> THEN FALSE
        ELSE IF dateStr < found[1].start_date \/ dateStr > found[1].end_date
             THEN FALSE
        ELSE dow \in found[1].days

----------------------------------------------------------------------------
(* Times and sorting.  A GTFS time is <<hh, mm, ss>>, hh possibly >= 24.   *)

\* a parse that reduces the time to the civil day
parseTimeToSec_mod(t) == (t[1] * 3600 + t[2] * 60 + t[3]) % 86400

\* parseGtfsTimeToSeconds, parseTimeToSec, hhmmssToSeconds, parseHMS
parseTimeToSec(t) == t[1] * 3600 + t[2] * 60 + t[3]

\* Array.prototype.sort((a, b) => a - b): stable, ascending.
RECURSIVE Insert(_, _)
Insert(x, sorted) ==
    IF sorted = <<>> THEN <<x>>
    ELSE IF x < Head(sorted) THEN <<x>> \o sorted
    ELSE <<Head(sorted)>> \o Insert(x, Tail(sorted))

RECURSIVE SortAsc(_)
SortAsc(seq) ==
    IF seq = <<>> THEN <<>>
    ELSE LET n == Len(seq)
         IN  Insert(seq[n], SortAsc(SubSeq(seq, 1, n - 1)))

\* Array.prototype.sort((a, b) => a.startSec - b.startSec): stable.
RECURSIVE InsertByStart(_, _)
InsertByStart(x, sorted) ==
    IF sorted = <<>> THEN <<x>>
    ELSE IF x.startSec < Head(sorted).startSec THEN <<x>> \o sorted
    ELSE <<Head(sorted)>> \o InsertByStart(x, Tail(sorted))

RECURSIVE SortByStart(_)
SortByStart(seq) ==
    IF seq = <<>> THEN <<>>
    ELSE LET n == Len(seq)
         IN  InsertByStart(seq[n], SortByStart(SubSeq(seq, 1, n - 1)))

Range(seq) == {seq[i] : i \in 1..Len(seq)}

----------------------------------------------------------------------------
(* "frequencies" (part_001): windows and the next two departures.          *)

ROUTE_ID == "4"
DIRECTION_ID == "0"

\* loadTripIdsForRouteAndDirection: Map trip_id -> service_id.
RECURSIVE loadTripIdsForRouteAndDirection(_)
loadTripIdsForRouteAndDirection(rows) ==
    IF rows = <<>> THEN <<>>
    ELSE LET n == Len(rows)
             r == rows[n]
             rest == loadTripIdsForRouteAndDirection(SubSeq(rows, 1, n - 1))
         IN  IF r.route_id # ROUTE_ID \/ r.direction_id # DIRECTION_ID THEN rest
             ELSE (r.trip_id :> r.service_id) @@ rest

RECURSIVE FrequencyRows(_, _, _)
FrequencyRows(rows, activeServiceIds, tripIdsMap) ==
    IF rows = <<>> THEN <<>>
    ELSE LET r == Head(rows)
             rest == FrequencyRows(Tail(rows), activeServiceIds, tripIdsMap)
         IN  IF r.trip_id \notin DOMAIN tripIdsMap THEN rest
             ELSE IF tripIdsMap[r.trip_id] \notin activeServiceIds THEN rest
             ELSE IF r.headway_secs <= 0 THEN rest
             ELSE <<[startSec |-> parseTimeToSec(r.start_time),
                     endSec |-> parseTimeToSec(r.end_time),
                     headwaySec |-> r.headway_secs]>> \o rest

loadFrequencyWindows(activeServiceIds, tripIdsMap, rows) ==
    SortByStart(FrequencyRows(rows, activeServiceIds, tripIdsMap))

\* part_001 205-219: up to two candidates of each window.
RECURSIVE WindowCandidates(_, _)
WindowCandidates(nowSec, windows) ==
    IF windows = <<>> THEN <<>>
    ELSE LET w == Head(windows)
             start == w.startSec
             head == w.headwaySec
             next == IF nowSec <= start THEN start
                     ELSE start + MathCeil(nowSec - start, head) * head
             two == SelectSeq(<<next, next + head>>, LAMBDA t : t <= w.endSec)
         IN  (IF nowSec > w.endSec THEN <<>> ELSE two)
                \o WindowCandidates(nowSec, Tail(windows))

\* part_001 223-228: drop a candidate equal to the last kept one, keep two.
RECURSIVE UniqExact(_, _)
UniqExact(uniq, candidates) ==
    IF candidates = <<>> \/ Len(uniq) >= 2 THEN uniq
    ELSE LET t == Head(candidates)
         IN  IF Len(uniq) > 0 /\ uniq[Len(uniq)] = t
             THEN UniqExact(uniq, Tail(candidates))
             ELSE UniqExact(Append(uniq, t), Tail(candidates))

nextTwoFromFrequencies(nowSec, windows) ==
    UniqExact(<<>>, SortAsc(WindowCandidates(nowSec, windows)))

\* part_001 243-255, after the three loads: the value getNextTwoText returns.
getNextTwoText(cal, cds, tripRows, freqRows, today, dow, nowSec) ==
    LET activeServices == loadServiceIdsForToday(cal, cds, today, dow)
        tripIdsMap == loadTripIdsForRouteAndDirection(tripRows)
        windows == loadFrequencyWindows(activeServices, tripIdsMap, freqRows)
        nextTimes == nextTwoFromFrequencies(nowSec, windows)
        deltas == [i \in 1..Len(nextTimes) |-> nextTimes[i] - nowSec]
        labels == [i \in 1..Len(nextTimes) |-> formatNext(deltas[i])]
    IN  IF windows = <<>>
        THEN [status |-> "Hors", times |-> <<>>, deltas |-> <<>>,
              lines |-> <<Hors, Dash>>]
        ELSE IF nextTimes = <<>>
        THEN [status |-> "Hors", times |-> <<>>, deltas |-> <<>>,
              lines |-> <<Hors, Dash>>]
        ELSE [status |-> "OK", times |-> nextTimes, deltas |-> deltas,
              lines |-> IF Len(labels) = 1 THEN Append(labels, Dash) ELSE labels]

----------------------------------------------------------------------------
(* "cache" (server.js 367-681): the cache and its rebuild.                 *)

SixHours == 6 * 60 * 60

InitialCache ==
    [loadedAt |-> 0, activeServiceIds |-> {}, tripIds |-> {},
     freqBlocks |-> <<>>, ymd |-> 0]      \* ymd 0 stands for ""

\* server.js 485
cacheFresh(c, ymd, dateNow) ==
    c.ymd = ymd /\ (dateNow - c.loadedAt) < SixHours

\* server.js 489-495
ResetCache(ymd, dateNow) ==
    [loadedAt |-> dateNow, activeServiceIds |-> {}, tripIds |-> {},
     freqBlocks |-> <<>>, ymd |-> ymd]

\* server.js 502-511: calendar.txt rows added to cache.activeServiceIds
RebuildCalendar(c, rows, ymd, weekdayField) ==
    [c EXCEPT !.activeServiceIds = CalendarStep(@, rows, ymd, weekdayField)]

\* server.js 514-522
RebuildCalendarDates(c, rows, ymd) ==
    [c EXCEPT !.activeServiceIds = CalendarDatesStep(@, rows, ymd)]

\* server.js 526-535
RebuildTrips(c, rows) ==
    [c EXCEPT !.tripIds = @ \cup
        {rows[i].trip_id : i \in {j \in 1..Len(rows) :
            /\ rows[j].route_id = ROUTE_ID
            /\ rows[j].direction_id = DIRECTION_ID
            /\ rows[j].service_id \in c.activeServiceIds}}]

RECURSIVE FreqBlocks(_, _)
FreqBlocks(rows, tripIds) ==
    IF rows = <<>> THEN <<>>
    ELSE LET r == Head(rows)
             rest == FreqBlocks(Tail(rows), tripIds)
         IN  IF r.trip_id \notin tripIds \/ r.headway_secs <= 0 THEN rest
             ELSE <<[startSec |-> parseTimeToSec(r.start_time),
                     endSec |-> parseTimeToSec(r.end_time),
                     headwaySec |-> r.headway_secs]>> \o rest

\* server.js 539-553
RebuildFrequencies(c, rows) ==
    [c EXCEPT !.freqBlocks = @ \o FreqBlocks(rows, c.tripIds)]

\* server.js 556
RebuildSort(c) == [c EXCEPT !.freqBlocks = SortByStart(@)]

\* rebuildCacheIfNeeded run from the reset to its end with nothing in between
RebuildCache(cal, cds, tripRows, freqRows, ymd, weekday, dateNow) ==
    LET c0 == ResetCache(ymd, dateNow)
        c1 == RebuildCalendar(c0, cal, ymd, weekdayToCalendarField(weekday))
        c2 == RebuildCalendarDates(c1, cds, ymd)
        c3 == RebuildTrips(c2, tripRows)
        c4 == RebuildFrequencies(c3, freqRows)
    IN  RebuildSort(c4)

\* server.js 563-576: at most one candidate of each block.
RECURSIVE BlockCandidates(_, _)
BlockCandidates(secSinceMidnight, blocks) ==
    IF blocks = <<>> THEN <<>>
    ELSE LET b == Head(blocks)
             k == MathCeil(secSinceMidnight - b.startSec, b.headwaySec)
             next == b.startSec + k * b.headwaySec
             rest == BlockCandidates(secSinceMidnight, Tail(blocks))
         IN  IF secSinceMidnight <= b.startSec THEN <<b.startSec>> \o rest
             ELSE IF secSinceMidnight > b.endSec THEN rest
             ELSE IF next <= b.endSec THEN <<next>> \o rest
             ELSE rest

\* server.js 581-585: the first two candidates not yet included.
RECURSIVE FirstTwoDistinct(_, _)
FirstTwoDistinct(nextTwo, candidates) ==
    IF candidates = <<>> \/ Len(nextTwo) >= 2 THEN nextTwo
    ELSE LET t == Head(candidates)
         IN  FirstTwoDistinct(IF t \in Range(nextTwo) THEN nextTwo
                              ELSE Append(nextTwo, t), Tail(candidates))

\* Array.prototype.find: the first block that contains t1, if any.
RECURSIVE FindBlock(_, _)
FindBlock(blocks, t1) ==
    IF blocks = <<>> THEN <<>>
    ELSE IF t1 >= Head(blocks).startSec /\ t1 <= Head(blocks).endSec
         THEN <<Head(blocks)>>
    ELSE FindBlock(Tail(blocks), t1)

\* SecondFromBlock without the test of the end of the block
SecondFromBlock_noEnd(nextTwo, blocks) ==
    LET t1 == nextTwo[1]
        block == FindBlock(blocks, t1)
    IN  IF block # <<>> THEN Append(nextTwo, t1 + block[1].headwaySec)
        ELSE nextTwo

\* server.js 588-596: a second time from the block that contains the first.
SecondFromBlock(nextTwo, blocks) ==
    LET t1 == nextTwo[1]
        block == FindBlock(blocks, t1)
        t2 == t1 + block[1].headwaySec
    IN  IF block # <<>> /\ t2 <= block[1].endSec THEN Append(nextTwo, t2)
        ELSE nextTwo

computeNextTwoDepartures(secSinceMidnight, blocks) ==
    LET candidates == SortAsc(BlockCandidates(secSinceMidnight, blocks))
        nextTwo == FirstTwoDistinct(<<>>, candidates)
    IN  IF Len(nextTwo) = 1 THEN SecondFromBlock(nextTwo, blocks) ELSE nextTwo

\* server.js 603, for each time of which /next makes a label (622-623)
NextCacheDeltas(blocks, s1, s2, s3) ==
    LET nextTimes == computeNextTwoDepartures(s1, blocks)
        reads == <<s2, s3>>
    IN  [i \in {j \in 1..Len(nextTimes) : j = 1 \/ nextTimes[j] # 0}
            |-> nextTimes[i] - reads[i]]

\* server.js 616-624 with the three clock reads s1, s2, s3 it makes.
NextCacheLines(blocks, s1, s2, s3) ==
    LET nextTimes == computeNextTwoDepartures(s1, blocks)
    IN  IF Len(nextTimes) = 0 THEN <<Hors, Dash>>
        ELSE <<formatAsArriveOrMinutes(nextTimes[1], s2),
               IF Len(nextTimes) >= 2 /\ nextTimes[2] # 0
               THEN formatAsArriveOrMinutes(nextTimes[2], s3) ELSE Dash>>

----------------------------------------------------------------------------
(* "stoptime" (server.js 1-365): the indexes and the next two departures.  *)

STOP_ID == "STATION_M454"
ROUTE_SHORT_NAME == "4"

InitialGTFS ==
    [loaded |-> FALSE, tripsById |-> <<>>, departuresByService |-> <<>>,
     calendar |-> <<>>, calendarDates |-> <<>>]

\* server.js 163-175: trip_id -> service_id of the trips of the wanted routes
RECURSIVE TripsById(_, _)
TripsById(rows, wantedRouteIds) ==
    IF rows = <<>> THEN <<>>
    ELSE LET n == Len(rows)
             rest == TripsById(SubSeq(rows, 1, n - 1), wantedRouteIds)
         IN  IF rows[n].route_id \notin wantedRouteIds THEN rest
             ELSE (rows[n].trip_id :> rows[n].service_id) @@ rest

\* server.js 184-198: the times at STOP_ID of one service, in file order
RECURSIVE DeparturesOf(_, _, _)
DeparturesOf(rows, tripsById, sid) ==
    IF rows = <<>> THEN <<>>
    ELSE LET st == Head(rows)
             rest == DeparturesOf(Tail(rows), tripsById, sid)
         IN  IF st.stop_id # STOP_ID \/ st.trip_id \notin DOMAIN tripsById THEN rest
             ELSE IF tripsById[st.trip_id] # sid THEN rest
             ELSE <<parseTimeToSec(st.departure_time)>> \o rest

buildIndexesFromGtfsDir(routeRows, tripRows, stopTimeRows, cal, cds) ==
    LET wantedRouteIds ==
            {routeRows[i].route_id : i \in {j \in 1..Len(routeRows) :
                routeRows[j].route_short_name = ROUTE_SHORT_NAME}}
        tripsById == TripsById(tripRows, wantedRouteIds)
        sids == {s \in {tripsById[t] : t \in DOMAIN tripsById} :
                    DeparturesOf(stopTimeRows, tripsById, s) # <<>>}
    IN  [loaded |-> TRUE, tripsById |-> tripsById,
         departuresByService |->
            [s \in sids |-> SortAsc(DeparturesOf(stopTimeRows, tripsById, s))],
         calendar |-> cal, calendarDates |-> cds]

\* a search for the first index with depSec > nowSec
RECURSIVE BinarySearch_strict(_, _, _, _, _)
BinarySearch_strict(list, nowSec, lo, hi, idx) ==
    IF lo > hi THEN idx
    ELSE LET mid == (lo + hi) \div 2
         IN  IF list[mid + 1] > nowSec
             THEN BinarySearch_strict(list, nowSec, lo, mid - 1, mid)
             ELSE BinarySearch_strict(list, nowSec, mid + 1, hi, idx)

\* server.js 260-269: the binary search for the first index with depSec >= nowSec
\* (0-based lo, hi, idx as in the code; list is 1-based here)
RECURSIVE BinarySearch(_, _, _, _, _)
BinarySearch(list, nowSec, lo, hi, idx) ==
    IF lo > hi THEN idx
    ELSE LET mid == (lo + hi) \div 2
         IN  IF list[mid + 1] >= nowSec
             THEN BinarySearch(list, nowSec, lo, mid - 1, mid)
             ELSE BinarySearch(list, nowSec, mid + 1, hi, idx)

\* server.js 271-273
SixFrom(list, idx) == SubSeq(list, idx + 1, Min2(idx + 6, Len(list)))

RECURSIVE StopCandidates(_, _, _)
StopCandidates(sids, departuresByService, nowSec) ==
    IF sids = {} THEN <<>>
    ELSE LET sid == CHOOSE x \in sids : TRUE
             rest == StopCandidates(sids \ {sid}, departuresByService, nowSec)
         IN  IF sid \notin DOMAIN departuresByService THEN rest
             ELSE LET list == departuresByService[sid]
                  IN  SixFrom(list, BinarySearch(list, nowSec, 0, Len(list) - 1,
                                                 Len(list))) \o rest

Abs(x) == IF x < 0 THEN -x ELSE x

\* server.js 279-283: keep a candidate more than 10 s after the last kept one
RECURSIVE UniqIsh(_, _)
UniqIsh(uniq, candidates) ==
    IF candidates = <<>> \/ Len(uniq) >= 2 THEN uniq
    ELSE LET c == Head(candidates)
         IN  UniqIsh(IF Len(uniq) = 0 \/ Abs(c - uniq[Len(uniq)]) > 10
                     THEN Append(uniq, c) ELSE uniq, Tail(candidates))

\* server.js 248-290: the times kept, and the deltas returned (<<>> for null)
nextTwoTimes(G, nowSec, today, weekdayKey) ==
    LET activeServices ==
            activeServiceIdsForToday(G.calendar, G.calendarDates, today, weekdayKey)
    IN  UniqIsh(<<>>, SortAsc(StopCandidates(activeServices,
                                             G.departuresByService, nowSec)))

nextTwoDepartures(G, nowSec, today, weekdayKey) ==
    LET uniq == nextTwoTimes(G, nowSec, today, weekdayKey)
    IN  [i \in 1..Len(uniq) |-> Max(0, uniq[i] - nowSec)]

\* server.js 297-305
NextStoptimeLines(deltas) ==
    IF Len(deltas) = 0 THEN <<Hors, Dash>>
    ELSE <<formatDeltaToLabel(deltas[1]),
           IF Len(deltas) >= 2 THEN formatDeltaToLabel(deltas[2]) ELSE Dash>>

----------------------------------------------------------------------------
(* "headway" (part_000): the current headway and the two estimates.        *)

TARGET_HEADSIGN == "Berri"

\* (t.trip_headsign || "").toLowerCase().includes("berri")
HeadsignMatches(h) == h \in {"Berri-UQAM", "BERRI"}

\* pickMetroTripForRoute: candidates[0] || null
RECURSIVE pickMetroTripForRoute(_)
pickMetroTripForRoute(rows) ==
    IF rows = <<>> THEN <<>>
    ELSE IF Head(rows).route_id = ROUTE_ID /\ HeadsignMatches(Head(rows).trip_headsign)
         THEN <<Head(rows)>>
    ELSE pickMetroTripForRoute(Tail(rows))

\* frequencies.find: the first row of the trip whose window covers tSec
RECURSIVE FindFreq(_, _, _)
FindFreq(rows, tripId, tSec) ==
    IF rows = <<>> THEN <<>>
    ELSE LET f == Head(rows)
         IN  IF /\ f.trip_id = tripId
                /\ parseTimeToSec(f.start_time) <= tSec
                /\ tSec < parseTimeToSec(f.end_time)
             THEN <<f>>
             ELSE FindFreq(Tail(rows), tripId, tSec)

\* getCurrentHeadwaySeconds: [kind |-> "throw" | "null" | "num", v]
getCurrentHeadwaySeconds(g, dateStr, dow, tSec) ==
    LET trip == pickMetroTripForRoute(g.trips)
        freq == FindFreq(g.frequencies, trip[1].trip_id, tSec)
    IN  IF trip = <<>> THEN [kind |-> "throw", v |-> 0]
        ELSE IF ~isServiceActive(trip[1].service_id, dateStr, dow,
                                 g.calendar, g.calendarDates)
             THEN [kind |-> "null", v |-> 0]
        ELSE IF freq = <<>> THEN [kind |-> "null", v |-> 0]
        ELSE [kind |-> "num", v |-> freq[1].headway_secs]

\* computeNextTwoFromHeadway, unixNow being Math.floor(Date.now() / 1000)
computeNextTwoFromHeadway(headway, unixNow) ==
    IF headway.kind # "num" \/ headway.v <= 0 THEN <<Indispo, Dash>>
    ELSE LET mod == unixNow % headway.v
             nextIn == (headway.v - mod) % headway.v
             next2In == nextIn + headway.v
         IN  <<formatHeadway(nextIn), formatHeadway(next2In)>>

\* part_000 16-17
InitialGtfs == [loaded |-> FALSE, loadedAt |-> 0, trips |-> <<>>,
                frequencies |-> <<>>, calendar |-> <<>>, calendarDates |-> <<>>]

GTFS_CACHE_S == 6 * 60 * 60

\* loadGtfsIfNeeded with the download succeeding
loadGtfsIfNeeded(g, dateNow, tripRows, freqRows, cal, cds) ==
    IF g.loaded /\ (dateNow - g.loadedAt) < GTFS_CACHE_S THEN g
    ELSE [loaded |-> TRUE, loadedAt |-> dateNow, trips |-> tripRows,
          frequencies |-> freqRows, calendar |-> cal, calendarDates |-> cds]

----------------------------------------------------------------------------
(* The requests.  A request arrives at an instant n of Instants, not       *)
(* before the clock; the clock may advance by a step of Advances between   *)
(* two clock reads of one handler.                                         *)

Instants == {0, 3, 6, 31, 46, 60, 61, 126}
Advances == {0, 1}
SecondsPerDay == 24 * 60 * 60

AdvanceClock(c, a) ==
    IF c.sec + a >= SecondsPerDay
    THEN [ymd |-> c.ymd + 1, sec |-> c.sec + a - SecondsPerDay]
    ELSE [ymd |-> c.ymd, sec |-> c.sec + a]

NoOut == [fn |-> "none"]

\* an answer with what produced it: the times chosen at the clock read now,
\* the deltas turned into labels, and the clock reads fmt of the labels
Answer(fn, status, threw, lines, times, deltas, c, fmt) ==
    [fn |-> fn, status |-> status, threw |-> threw, lines |-> lines,
     times |-> times, deltas |-> deltas, ymd |-> c.ymd, now |-> c.sec, fmt |-> fmt]

\* server.js 348-363 with the download and the index build succeeding
Boot ==
    /\ deployed = "stoptime"
    /\ ~listening
    /\ listening' = TRUE
    /\ GTFS' = buildIndexesFromGtfsDir(routes, trips, stopTimes, calendar, calendarDates)
    /\ UNCHANGED <<deployed, clock, feed, cache, reqs, gtfs, out>>

\* server.js 295-310: GET /next of "stoptime"
NextStoptime ==
    /\ deployed = "stoptime"
    /\ listening
    /\ \E n \in Instants :
        /\ n >= clock.sec
        /\ clock' = [clock EXCEPT !.sec = n]
        /\ LET c == clock'
               wk == weekdayToCalendarField(WeekdayShort(c.ymd))
               deltas == nextTwoDepartures(GTFS, c.sec, c.ymd, wk)
           IN  out' = Answer("stoptime", 200, FALSE, NextStoptimeLines(deltas),
                             nextTwoTimes(GTFS, c.sec, c.ymd, wk), deltas,
                             c, <<c.sec, c.sec>>)
    /\ UNCHANGED <<deployed, feed, listening, GTFS, cache, reqs, gtfs>>

\* server.js 612-629: GET /next of "cache", no other request in flight
NextCache ==
    /\ deployed = "cache"
    /\ reqs = <<>>
    /\ \E n \in Instants, a \in Advances, b \in Advances :
        /\ n >= clock.sec
        /\ LET c == [clock EXCEPT !.sec = n]
               c2 == AdvanceClock(c, a)
               c3 == AdvanceClock(c2, b)
               built == IF cacheFresh(cache, c.ymd, DateNow(c)) THEN cache
                        ELSE RebuildCache(calendar, calendarDates, trips, frequencies,
                                          c.ymd, WeekdayShort(c.ymd), DateNow(c))
           IN  /\ cache' = built
               /\ clock' = c3
               /\ out' = [Answer("cache", 200, FALSE,
                                 NextCacheLines(built.freqBlocks, c.sec, c2.sec, c3.sec),
                                 computeNextTwoDepartures(c.sec, built.freqBlocks),
                                 NextCacheDeltas(built.freqBlocks, c.sec, c2.sec, c3.sec),
                                 c, <<c2.sec, c3.sec>>)
                          EXCEPT !.ymd = c3.ymd]
    /\ UNCHANGED <<deployed, feed, listening, GTFS, reqs, gtfs>>

\* part_001 261-269: GET /next of "frequencies"
NextFrequencies ==
    /\ deployed = "frequencies"
    /\ \E n \in Instants :
        /\ n >= clock.sec
        /\ clock' = [clock EXCEPT !.sec = n]
        /\ LET c == clock'
               r == getNextTwoText(calendar, calendarDates, trips, frequencies,
                                   c.ymd, dowOf(c.ymd), c.sec)
           IN  out' = Answer("frequencies", 200, FALSE, r.lines, r.times, r.deltas,
                             c, <<c.sec, c.sec>>)
    /\ UNCHANGED <<deployed, feed, listening, GTFS, cache, reqs, gtfs>>

\* part_000 148-158: GET /next of "headway"
NextHeadway ==
    /\ deployed = "headway"
    /\ \E n \in Instants :
        /\ n >= clock.sec
        /\ clock' = [clock EXCEPT !.sec = n]
        /\ LET c == clock'
               g == loadGtfsIfNeeded(gtfs, DateNow(c), trips, frequencies,
                                     calendar, calendarDates)
               headway == getCurrentHeadwaySeconds(g, c.ymd, dowOf(c.ymd), c.sec)
           IN  /\ gtfs' = g
               /\ out' = IF headway.kind = "throw"
                         THEN Answer("headway", 500, TRUE, <<Indispo, Dash>>, <<>>,
                                     <<>>, c, <<c.sec>>)
                         ELSE Answer("headway", 200, FALSE,
                                     computeNextTwoFromHeadway(headway, DateNow(c)),
                                     <<>>, <<>>, c, <<c.sec>>)
    /\ UNCHANGED <<deployed, feed, listening, GTFS, cache, reqs>>

Next == Boot \/ NextStoptime \/ NextCache \/ NextFrequencies \/ NextHeadway

----------------------------------------------------------------------------
(* The feeds a run starts from.                                            *)

MaxFreq == 2
MaxStop == 3

Today == [ymd |-> 20240103, sec |-> 0]

Routes4 == <<[route_id |-> "4", route_short_name |-> "4"],
             [route_id |-> "1", route_short_name |-> "1"]>>

Rule(s, from, to, days) ==
    [service_id |-> s, start_date |-> from, end_date |-> to, days |-> days]
Exc(s, d, type) == [service_id |-> s, date |-> d, exception_type |-> type]
Trip(t, r, s, d, h) ==
    [trip_id |-> t, route_id |-> r, service_id |-> s, direction_id |-> d,
     trip_headsign |-> h]
Freq(t, from, to, h) ==
    [trip_id |-> t, start_time |-> from, end_time |-> to, headway_secs |-> h]
StopTime(t, stop, at) == [trip_id |-> t, stop_id |-> stop, departure_time |-> at]

Running(s) == Rule(s, 20240102, 20240104, {"tuesday", "wednesday", "thursday"})
T1 == Trip("T1", "4", "S1", "0", "Berri-UQAM")
T2 == Trip("T2", "4", "S2", "0", "Berri-UQAM")

\* frequency rows: the trip T2 runs five seconds after T1, and once one second
\* after midnight
FreqPool ==
    {Freq("T1", <<0, 0, 0>>, <<0, 2, 5>>, 30), Freq("T1", <<0, 0, 0>>, <<0, 1, 0>>, 45),
     Freq("T1", <<0, 1, 0>>, <<0, 1, 0>>, 30), Freq("T1", <<0, 1, 0>>, <<0, 2, 5>>, 45),
     Freq("T2", <<0, 0, 5>>, <<0, 2, 5>>, 30), Freq("T2", <<0, 0, 5>>, <<0, 1, 0>>, 45),
     Freq("T2", <<0, 0, 1>>, <<0, 0, 1>>, 30)}

StopPool ==
    {StopTime("T1", STOP_ID, at) : at \in {<<0, 0, 30>>, <<0, 1, 0>>, <<0, 2, 0>>}}
    \cup {StopTime("T2", STOP_ID, <<0, 0, 35>>), StopTime("T1", "OTHER", <<0, 0, 5>>)}

TripPool ==
    {Trip("T1", r, "S1", d, h) : r \in {"4", "1"}, d \in {"0", "1"},
                                  h \in {"Berri-UQAM", "Longueuil"}}

Idle ==
    /\ clock = Today
    /\ routes = Routes4
    /\ listening = FALSE
    /\ GTFS = InitialGTFS
    /\ cache = InitialCache
    /\ reqs = <<>>
    /\ gtfs = InitialGtfs
    /\ out = NoOut

\* every service runs, the route has its trips; the frequency windows vary
InitWindows ==
    /\ calendar = <<Running("S1"), Running("S2")>>
    /\ calendarDates = <<>>
    /\ trips = <<T1, T2>>
    /\ frequencies \in SeqsUpTo(FreqPool, MaxFreq)
    /\ stopTimes = <<>>

\* the stop-time entries vary
InitStops ==
    /\ calendar = <<Running("S1"), Running("S2")>>
    /\ calendarDates = <<>>
    /\ trips = <<T1, T2>>
    /\ frequencies = <<>>
    /\ stopTimes \in SeqsUpTo(StopPool, MaxStop)

\* the trips and the service day vary
InitSelector ==
    /\ calendar \in {<<>>, <<Running("S1")>>,
                     <<Rule("S1", 20240102, 20240104, {"tuesday"})>>}
    /\ calendarDates \in {<<>>, <<Exc("S1", 20240103, "1")>>,
                          <<Exc("S1", 20240103, "2")>>}
    /\ trips \in SeqsUpTo(TripPool, 1)
    /\ frequencies = <<Freq("T1", <<0, 0, 0>>, <<0, 2, 5>>, 30)>>
    /\ stopTimes = <<StopTime("T1", STOP_ID, <<0, 1, 0>>),
                     StopTime("T1", STOP_ID, <<0, 2, 0>>)>>

Variants == {"stoptime", "cache", "headway", "frequencies"}

Init ==
    /\ Idle
    /\ \/ InitWindows /\ deployed \in Variants \ {"stoptime"}
       \/ InitStops /\ deployed = "stoptime"
       \/ InitSelector /\ deployed \in Variants

Spec == Init /\ [][Next]_vars

----------------------------------------------------------------------------
(* SpecLabel: the three label functions applied to every delta up to       *)
(* MaxDelta.                                                               *)

MaxDelta == 200

NoFeed ==
    /\ calendar = <<>> /\ calendarDates = <<>> /\ trips = <<>>
    /\ frequencies = <<>> /\ stopTimes = <<>>

InitLabel == Idle /\ NoFeed /\ deployed \in {"stoptime", "cache", "frequencies"}

CallFormatDeltaToLabel ==
    /\ deployed = "stoptime"
    /\ \E d \in 0..MaxDelta :
        out' = [fn |-> "formatDeltaToLabel", delta |-> d,
                label |-> formatDeltaToLabel(d)]
    /\ UNCHANGED <<deployed, clock, feed, listening, GTFS, cache, reqs, gtfs>>

CallFormatAsArriveOrMinutes ==
    /\ deployed = "cache"
    /\ \E d \in 0..MaxDelta, s \in Instants :
        out' = [fn |-> "formatAsArriveOrMinutes", delta |-> d,
                label |-> formatAsArriveOrMinutes(s + d, s)]
    /\ UNCHANGED <<deployed, clock, feed, listening, GTFS, cache, reqs, gtfs>>

CallFormatNext ==
    /\ deployed = "frequencies"
    /\ \E d \in 0..MaxDelta :
        out' = [fn |-> "formatNext", delta |-> d, label |-> formatNext(d)]
    /\ UNCHANGED <<deployed, clock, feed, listening, GTFS, cache, reqs, gtfs>>

NextLabel == CallFormatDeltaToLabel \/ CallFormatAsArriveOrMinutes \/ CallFormatNext

SpecLabel == InitLabel /\ [][NextLabel]_vars

\* C7: for every delta >= 0 the label of formatDeltaToLabel,
\* formatAsArriveOrMinutes and formatNext is "Arrive" exactly when delta < 60
\* and otherwise "<m> min" with m = floor((delta + 30) / 60); 60 gives "1 min".
C7_LabelRule ==
    out.fn \in {"formatDeltaToLabel", "formatAsArriveOrMinutes", "formatNext"} =>
        out.label = IF out.delta < 60 THEN Arrive
                    ELSE Min((out.delta + 30) \div 60)

----------------------------------------------------------------------------
(* SpecCal: the service-day resolution of each variant on every small      *)
(* calendar and every list of up to MaxExc exception rows.                 *)

MaxExc == 2

RulePool(s) ==
    {Rule(s, r[1], r[2], days) :
        r \in {<<20240102, 20240104>>, <<20240102, 20240102>>, <<20240104, 20240104>>,
                <<20240103, 20240103>>},
        days \in {{"wednesday"}, {"tuesday", "thursday"}}}

\* at most one rule of each service
Calendars ==
    {<<>>} \cup {<<r>> : r \in RulePool("S1") \cup RulePool("S2")}
           \cup {<<r1, r2>> : r1 \in RulePool("S1"), r2 \in RulePool("S2")}

ExcPool == {Exc(s, d, t) : s \in Services, d \in {20240103, 20240104}, t \in {"1", "2"}}

InitCal ==
    /\ Idle
    /\ deployed \in Variants
    /\ calendar \in Calendars
    /\ calendarDates \in SeqsUpTo(ExcPool, MaxExc)
    /\ trips = <<>> /\ frequencies = <<>> /\ stopTimes = <<>>

CallActiveServiceIdsForToday ==
    /\ deployed = "stoptime"
    /\ listening
    /\ out' = [fn |-> "activeServiceIdsForToday",
               active |-> activeServiceIdsForToday(GTFS.calendar, GTFS.calendarDates,
                              clock.ymd,
                              weekdayToCalendarField(WeekdayShort(clock.ymd)))]
    /\ UNCHANGED <<deployed, clock, feed, listening, GTFS, cache, reqs, gtfs>>

CallRebuildCacheIfNeeded ==
    /\ deployed = "cache"
    /\ reqs = <<>>
    /\ ~cacheFresh(cache, clock.ymd, DateNow(clock))
    /\ cache' = RebuildCache(calendar, calendarDates, trips, frequencies,
                             clock.ymd, WeekdayShort(clock.ymd), DateNow(clock))
    /\ out' = [fn |-> "rebuildCacheIfNeeded", active |-> cache'.activeServiceIds]
    /\ UNCHANGED <<deployed, clock, feed, listening, GTFS, reqs, gtfs>>

CallLoadServiceIdsForToday ==
    /\ deployed = "frequencies"
    /\ out' = [fn |-> "loadServiceIdsForToday",
               active |-> loadServiceIdsForToday(calendar, calendarDates,
                                                 clock.ymd, dowOf(clock.ymd))]
    /\ UNCHANGED <<deployed, clock, feed, listening, GTFS, cache, reqs, gtfs>>

CallIsServiceActive ==
    /\ deployed = "headway"
    /\ \E s \in Services :
        out' = [fn |-> "isServiceActive", serviceId |-> s,
                active |-> IF isServiceActive(s, clock.ymd, dowOf(clock.ymd),
                                              calendar, calendarDates)
                           THEN {s} ELSE {}]
    /\ UNCHANGED <<deployed, clock, feed, listening, GTFS, cache, reqs, gtfs>>

NextCal ==
    \/ Boot
    \/ CallActiveServiceIdsForToday
    \/ CallRebuildCacheIfNeeded
    \/ CallLoadServiceIdsForToday
    \/ CallIsServiceActive

SpecCal == InitCal /\ [][NextCal]_vars

HasException(s, type) ==
    \E i \in 1..Len(calendarDates) : calendarDates[i] = Exc(s, clock.ymd, type)

Resolvers == {"activeServiceIdsForToday", "rebuildCacheIfNeeded", "loadServiceIdsForToday"}

\* C1: if today's exception rows hold both an Added and a Removed row of a
\* service, the service is not in the active set returned by
\* activeServiceIdsForToday, rebuildCacheIfNeeded or loadServiceIdsForToday,
\* in whatever order the two rows come and whatever the calendar rule says.
C1_RemovedWins ==
    out.fn \in Resolvers =>
        \A s \in Services :
            HasException(s, "1") /\ HasException(s, "2") => s \notin out.active

\* C10: a lone exception of today applies whatever the calendar says: with
\* only Added rows the service is active (also without a rule, outside the
\* rule's dates, or with the weekday flag 0); with only Removed rows it is not.
C10_LoneException ==
    out.fn \in Resolvers =>
        \A s \in Services :
            /\ HasException(s, "1") /\ ~HasException(s, "2") => s \in out.active
            /\ HasException(s, "2") /\ ~HasException(s, "1") => s \notin out.active

\* the services whose calendar rule covers today and flags today's weekday
RuleOnly ==
    {s \in Services :
        \E i \in 1..Len(calendar) :
            /\ calendar[i].service_id = s
            /\ calendar[i].start_date <= clock.ymd
            /\ clock.ymd <= calendar[i].end_date
            /\ dowOf(clock.ymd) \in calendar[i].days}

NoExceptionToday ==
    \A i \in 1..Len(calendarDates) : calendarDates[i].date # clock.ymd

\* C11: when no exception row is dated today, the active set is exactly the
\* set of services whose calendar rule has start_date <= today <= end_date
\* and the flag 1 for today's weekday (isServiceActive: the answer for the
\* service asked is its membership of that set); it is empty when no rule
\* matches.
C11_RuleOnly ==
    NoExceptionToday =>
        /\ out.fn \in Resolvers => out.active = RuleOnly
        /\ out.fn = "isServiceActive" => out.active = RuleOnly \cap {out.serviceId}

\* loadServiceIdsForToday on a day without exception: one rule starts and
\* ends today and flags the weekday, the other does not flag it
C11_Witness ==
    /\ out.fn = "loadServiceIdsForToday"
    /\ NoExceptionToday /\ calendarDates # <<>>
    /\ Len(calendar) = 2
    /\ calendar[1].start_date = clock.ymd /\ calendar[1].end_date = clock.ymd
    /\ out.active = {calendar[1].service_id}

----------------------------------------------------------------------------
(* SpecFreq: nextTwoFromFrequencies and computeNextTwoDepartures called at *)
(* successive instants of one day on the windows of every feed of up to    *)
(* MaxFreq frequency rows.                                                 *)

InitFreq == Idle /\ InitWindows /\ deployed \in {"cache", "frequencies"}

\* the call before this one, when it was a call of the same function
Before(fn) ==
    IF out.fn = fn THEN [fn |-> fn, now |-> out.now, times |-> out.times]
    ELSE NoOut

\* part_001 239-241: the windows getNextTwoText passes to nextTwoFromFrequencies
WindowsToday ==
    loadFrequencyWindows(
        loadServiceIdsForToday(calendar, calendarDates, clock.ymd, dowOf(clock.ymd)),
        loadTripIdsForRouteAndDirection(trips), frequencies)

CallNextTwoFromFrequencies ==
    /\ deployed = "frequencies"
    /\ \E n \in Instants :
        /\ n >= clock.sec
        /\ clock' = [clock EXCEPT !.sec = n]
        /\ out' = [fn |-> "nextTwoFromFrequencies", now |-> n,
                   windows |-> WindowsToday,
                   times |-> nextTwoFromFrequencies(n, WindowsToday),
                   before |-> Before("nextTwoFromFrequencies")]
    /\ UNCHANGED <<deployed, feed, listening, GTFS, cache, reqs, gtfs>>

CallComputeNextTwoDepartures ==
    /\ deployed = "cache"
    /\ cache.ymd = clock.ymd
    /\ \E n \in Instants :
        /\ n >= clock.sec
        /\ clock' = [clock EXCEPT !.sec = n]
        /\ out' = [fn |-> "computeNextTwoDepartures", now |-> n,
                   windows |-> cache.freqBlocks,
                   times |-> computeNextTwoDepartures(n, cache.freqBlocks),
                   before |-> Before("computeNextTwoDepartures")]
    /\ UNCHANGED <<deployed, feed, listening, GTFS, cache, reqs, gtfs>>

NextFreq ==
    \/ CallRebuildCacheIfNeeded
    \/ CallNextTwoFromFrequencies
    \/ CallComputeNextTwoDepartures

SpecFreq == InitFreq /\ [][NextFreq]_vars

Projectors == {"nextTwoFromFrequencies", "computeNextTwoDepartures"}

\* C5: no time returned by nextTwoFromFrequencies or computeNextTwoDepartures
\* is smaller than now, and on the same windows the first time returned for a
\* later now is not smaller than the first time returned for an earlier now.
C5_NeverBeforeNow ==
    out.fn \in Projectors =>
        /\ \A i \in 1..Len(out.times) : out.times[i] >= out.now
        /\ (out.before.fn = out.fn /\ out.before.times # <<>> /\ out.times # <<>>)
              => out.before.times[1] <= out.times[1]

\* a call strictly inside a window and off its grid, after an earlier call
\* whose first time has passed
C5_Witness ==
    /\ out.fn = "computeNextTwoDepartures"
    /\ out.now = 31
    /\ out.times # <<>> /\ out.times[1] = 60
    /\ out.before.fn = out.fn /\ out.before.now = 6
    /\ out.before.times # <<>> /\ out.before.times[1] = 30

\* C6: two candidates of two windows at most 10 seconds apart are reported
\* as one departure: a second reported time is more than 10 seconds after
\* the first.
C6_DedupeTolerance ==
    (out.fn \in Projectors /\ Len(out.times) = 2) =>
        out.times[2] - out.times[1] > 10

\* the departures at or after now of the windows of a call: start + k*headway
\* up to end
WindowDepartures ==
    {t \in UNION {{w.startSec + k * w.headwaySec :
                      k \in 0..((w.endSec - w.startSec) \div w.headwaySec)} :
                  w \in Range(out.windows)} : t >= out.now}

\* the (up to) two smallest values of a set, ascending
TwoSmallest(D) ==
    IF D = {} THEN <<>>
    ELSE LET d1 == CHOOSE d \in D : \A e \in D : d <= e
             R == D \ {d1}
         IN  IF R = {} THEN <<d1>>
             ELSE <<d1, CHOOSE d \in R : \A e \in R : d <= e>>

\* C16: the times returned by nextTwoFromFrequencies and
\* computeNextTwoDepartures are the two smallest distinct departures, at or
\* after now, of all the windows together.
C16_GlobalNextTwo ==
    out.fn \in Projectors => out.times = TwoSmallest(WindowDepartures)

\* the candidates the rule gives for one window: the first departure at or
\* after now, then the one a headway later, each only if it is <= end
RuleCandidates(w, nowSec) ==
    LET steps == 0..((w.endSec - w.startSec) \div w.headwaySec + 1)
        k == CHOOSE j \in steps :
                /\ w.startSec + j * w.headwaySec >= nowSec
                /\ \A i \in steps : i < j => w.startSec + i * w.headwaySec < nowSec
        first == IF nowSec <= w.startSec THEN w.startSec
                 ELSE w.startSec + k * w.headwaySec
    IN  IF nowSec > w.endSec THEN <<>>
        ELSE SelectSeq(<<first, first + w.headwaySec>>, LAMBDA t : t <= w.endSec)

\* C17: every window of a call contributes the candidates of the rule (start
\* when now <= start; otherwise start + ceil((now - start)/headway)*headway
\* when it is <= end; nothing when now > end; then the candidate a headway
\* later while <= end): the times returned are candidates of the rule, and
\* no candidate of a window earlier than the last time returned is left out.
C17_WindowCandidates ==
    out.fn \in Projectors =>
        LET cands == UNION {Range(RuleCandidates(w, out.now)) :
                                w \in Range(out.windows)}
        IN  /\ Range(out.times) \subseteq cands
            /\ \A t \in cands :
                  (Len(out.times) < 2 \/ t < out.times[2]) => t \in Range(out.times)

----------------------------------------------------------------------------
(* Claims about the answers of GET /next (Spec).                           *)

Handlers == {"stoptime", "cache", "frequencies", "headway"}

\* the route selector of the deployed variant
Selected(t) ==
    CASE deployed = "stoptime" ->
            \E i \in 1..Len(routes) : /\ routes[i].route_short_name = "4"
                                      /\ routes[i].route_id = t.route_id
      [] deployed = "headway" ->
            t.route_id = "4" /\ t.trip_headsign = "Berri-UQAM"
      [] OTHER -> t.route_id = "4" /\ t.direction_id = "0"

NoTripMatches == \A i \in 1..Len(trips) : ~Selected(trips[i])

\* the design's service-day rule: (rule or Added) and not Removed
ServiceRuns(s, ymd) ==
    LET byRule == \E i \in 1..Len(calendar) :
                    /\ calendar[i].service_id = s
                    /\ calendar[i].start_date <= ymd /\ ymd <= calendar[i].end_date
                    /\ dowOf(ymd) \in calendar[i].days
        has(type) == \E i \in 1..Len(calendarDates) :
                        calendarDates[i] = Exc(s, ymd, type)
    IN  (byRule \/ has("1")) /\ ~has("2")

NoActiveService == \A s \in Services : ~ServiceRuns(s, clock.ymd)

PastEverything ==
    IF deployed = "stoptime"
    THEN \A i \in 1..Len(stopTimes) :
            out.now > parseTimeToSec(stopTimes[i].departure_time)
    ELSE \A i \in 1..Len(frequencies) :
            out.now > parseTimeToSec(frequencies[i].end_time)

OutOfService(o) == o.lines = <<Hors, Dash>> /\ ~o.threw /\ o.status = 200

\* C3: when the route has trips and no service is active today, or now is
\* past the end of every window (past every stop-time entry), the answer of
\* /next is "Hors période de service" then "—", an ordinary answer and not
\* "Données indisponibles".
C3_OutOfService ==
    (out.fn \in Handlers /\ ~NoTripMatches /\ (NoActiveService \/ PastEverything))
        => OutOfService(out)

\* C4: when no trip matches the route selector the answer is "Données
\* indisponibles", produced without throwing, and so differs from the
\* out-of-service answer.
C4_UnknownRoute ==
    (out.fn \in Handlers /\ NoTripMatches)
        => (out.lines[1] = Indispo /\ ~out.threw)

\* C8: every delta turned into a label is candidate - now for the now that
\* selected the candidate, and is never negative.
C8_DeltaOfSameNow ==
    out.fn \in {"stoptime", "cache", "frequencies"} =>
        \A i \in 1..Len(out.deltas) :
            out.deltas[i] = out.times[i] - out.now /\ out.deltas[i] >= 0

\* the departures of one window: start, start + headway, ... up to end
Grid(w) ==
    {w.startSec + k * w.headwaySec :
        k \in 0..((w.endSec - w.startSec) \div w.headwaySec)}

\* the departures at or after now that the deployed variant holds for the
\* services it found active today
Departures ==
    LET held ==
            CASE deployed = "cache" ->
                    UNION {Grid(w) : w \in Range(cache.freqBlocks)}
              [] deployed = "frequencies" ->
                    UNION {Grid(w) : w \in Range(WindowsToday)}
              [] OTHER ->
                    UNION {Range(GTFS.departuresByService[s]) :
                            s \in DOMAIN GTFS.departuresByService
                                \cap activeServiceIdsForToday(
                                        GTFS.calendar, GTFS.calendarDates, out.ymd,
                                        weekdayToCalendarField(WeekdayShort(out.ymd)))}
    IN  {t \in held : t >= out.now}

\* the label /next gives to the departure t in the slot i
LabelOf(t, i) ==
    CASE out.fn = "stoptime" -> formatDeltaToLabel(Max(0, t - out.now))
      [] out.fn = "cache" -> formatAsArriveOrMinutes(t, out.fmt[i])
      [] OTHER -> formatNext(t - out.now)

\* C9: when exactly one departure exists at or after now, the first line is
\* its label and the second line is the placeholder "—"; a second line that
\* is not the placeholder is the label of a departure of some window or
\* stop-time entry, other than the first, whatever its delta.
C9_SecondSlot ==
    out.fn \in {"stoptime", "cache", "frequencies"} =>
        /\ Cardinality(Departures) = 1 =>
              \A d \in Departures :
                  out.times = <<d>> /\ out.lines = <<LabelOf(d, 1), Dash>>
        /\ Len(out.times) = 2 =>
              /\ out.times[2] \in Departures
              /\ out.times[2] # out.times[1]
              /\ out.lines[2] = LabelOf(out.times[2], 2)
        /\ out.lines[2] # Dash => Len(out.times) = 2

\* the frequency variant of server.js answers with one block whose only
\* departure left is its start: the step of one headway would leave the block
C9_Witness ==
    /\ out.fn = "cache"
    /\ Cardinality(Departures) = 1
    /\ out.times = <<60>>
    /\ out.lines[2] = Dash

----------------------------------------------------------------------------
(* SpecRace: GET /next of "cache" with rebuildCacheIfNeeded taken one      *)
(* await at a time. What runs between two awaits runs alone (one thread);  *)
(* every request in flight writes the one global cache.                    *)

MaxReqs == 2

InitRace ==
    /\ Idle
    /\ deployed = "cache"
    /\ calendar = <<Running("S1"), Running("S2")>>
    /\ calendarDates = <<>>
    /\ trips = <<T1, T2>>
    /\ frequencies = <<Freq("T1", <<0, 0, 0>>, <<0, 2, 5>>, 30),
                       Freq("T2", <<0, 0, 5>>, <<0, 2, 5>>, 30)>>
    /\ stopTimes = <<>>

\* server.js 616-624: the cache computeNextTwoDepartures reads, and the answer
Computed(c, sec) ==
    [fn |-> "next", status |-> 200, threw |-> FALSE, read |-> c, now |-> sec,
     times |-> computeNextTwoDepartures(sec, c.freqBlocks),
     lines |-> NextCacheLines(c.freqBlocks, sec, sec, sec)]

Without(seq, i) == SubSeq(seq, 1, i - 1) \o SubSeq(seq, i + 1, Len(seq))

\* server.js 612-624, 483-486: a request that finds the cache fresh computes
\* at once
ArriveFresh ==
    /\ \E n \in Instants :
        /\ n >= clock.sec
        /\ clock' = [clock EXCEPT !.sec = n]
        /\ cacheFresh(cache, clock.ymd, DateNow(clock'))
        /\ out' = Computed(cache, n)
    /\ UNCHANGED <<deployed, feed, listening, GTFS, cache, reqs, gtfs>>

\* server.js 483-502: the cache is not fresh; it is reset and the request
\* awaits the download of calendar.txt
ArriveStale ==
    /\ Len(reqs) < MaxReqs
    /\ \E n \in Instants :
        /\ n >= clock.sec
        /\ clock' = [clock EXCEPT !.sec = n]
        /\ ~cacheFresh(cache, clock.ymd, DateNow(clock'))
        /\ cache' = ResetCache(clock.ymd, DateNow(clock'))
        /\ reqs' = Append(reqs, [pc |-> "calendar", ymd |-> clock.ymd,
                                  weekday |-> WeekdayShort(clock.ymd)])
    /\ UNCHANGED <<deployed, feed, listening, GTFS, gtfs, out>>

\* server.js 502-511: the rows of calendar.txt arrive
DownloadCalendar ==
    /\ \E i \in 1..Len(reqs) :
        /\ reqs[i].pc = "calendar"
        /\ cache' = RebuildCalendar(cache, calendar, reqs[i].ymd,
                                    weekdayToCalendarField(reqs[i].weekday))
        /\ reqs' = [reqs EXCEPT ![i].pc = "calendar_dates"]
    /\ UNCHANGED <<deployed, clock, feed, listening, GTFS, gtfs, out>>

\* server.js 514-522
DownloadCalendarDates ==
    /\ \E i \in 1..Len(reqs) :
        /\ reqs[i].pc = "calendar_dates"
        /\ cache' = RebuildCalendarDates(cache, calendarDates, reqs[i].ymd)
        /\ reqs' = [reqs EXCEPT ![i].pc = "trips"]
    /\ UNCHANGED <<deployed, clock, feed, listening, GTFS, gtfs, out>>

\* server.js 526-535
DownloadTrips ==
    /\ \E i \in 1..Len(reqs) :
        /\ reqs[i].pc = "trips"
        /\ cache' = RebuildTrips(cache, trips)
        /\ reqs' = [reqs EXCEPT ![i].pc = "frequencies"]
    /\ UNCHANGED <<deployed, clock, feed, listening, GTFS, gtfs, out>>

\* server.js 539-553
DownloadFrequencies ==
    /\ \E i \in 1..Len(reqs) :
        /\ reqs[i].pc = "frequencies"
        /\ cache' = RebuildFrequencies(cache, frequencies)
        /\ reqs' = [reqs EXCEPT ![i].pc = "sort"]
    /\ UNCHANGED <<deployed, clock, feed, listening, GTFS, gtfs, out>>

\* server.js 556, 616-624: the last await is over; the blocks are sorted and
\* the request computes and answers
Finish ==
    /\ \E i \in 1..Len(reqs) :
        /\ reqs[i].pc = "sort"
        /\ cache' = RebuildSort(cache)
        /\ out' = Computed(cache', clock.sec)
        /\ reqs' = Without(reqs, i)
    /\ UNCHANGED <<deployed, clock, feed, listening, GTFS, gtfs>>

\* server.js 477-481, 625-628: a download fails; the request answers 500 and
\* the cache stays as it is
DownloadFails ==
    /\ \E i \in 1..Len(reqs) :
        /\ reqs[i].pc # "sort"
        /\ out' = [fn |-> "next", status |-> 500, threw |-> TRUE, read |-> cache,
                   now |-> clock.sec, times |-> <<>>, lines |-> <<Indispo, Dash>>]
        /\ reqs' = Without(reqs, i)
    /\ UNCHANGED <<deployed, clock, feed, listening, GTFS, cache, gtfs>>

\* the day turns while the server runs
Midnight ==
    /\ clock.ymd + 1 \in Dates
    /\ clock' = [ymd |-> clock.ymd + 1, sec |-> 0]
    /\ UNCHANGED <<deployed, feed, listening, GTFS, cache, reqs, gtfs, out>>

NextRace ==
    \/ ArriveFresh
    \/ ArriveStale
    \/ DownloadCalendar
    \/ DownloadCalendarDates
    \/ DownloadTrips
    \/ DownloadFrequencies
    \/ Finish
    \/ DownloadFails
    \/ Midnight

SpecRace == InitRace /\ [][NextRace]_vars

\* a cache that one whole run of rebuildCacheIfNeeded leaves for its day
Complete(c) ==
    c = RebuildCache(calendar, calendarDates, trips, frequencies,
                     c.ymd, WeekdayShort(c.ymd), c.loadedAt)

\* C2: every call of computeNextTwoDepartures reads a complete snapshot of
\* the feed, the one before or the one after a refresh, never a cache that a
\* rebuild has reset and not yet filled.
C2_AtomicRefresh ==
    (out.fn = "next" /\ ~out.threw) => Complete(out.read)

----------------------------------------------------------------------------
(* SpecLate: the frequency projections late in the evening, on windows     *)
(* that end after 24:00:00.                                                *)

LateInstants == {300, 85800, 86100, 86399}

\* 23:50:00-25:10:00 every 10 min is 85800..90600 every 600 s
LatePool ==
    {Freq("T1", <<23, 50, 0>>, <<25, 10, 0>>, 600),
     Freq("T2", <<23, 45, 0>>, <<23, 59, 50>>, 300),
     Freq("T1", <<24, 0, 0>>, <<24, 20, 0>>, 600),
     Freq("T2", <<0, 5, 0>>, <<0, 15, 0>>, 300)}

InitLate ==
    /\ Idle
    /\ deployed \in {"cache", "frequencies"}
    /\ calendar = <<Running("S1"), Running("S2")>>
    /\ calendarDates = <<>>
    /\ trips = <<T1, T2>>
    /\ frequencies \in SeqsUpTo(LatePool, MaxFreq)
    /\ stopTimes = <<>>

\* part_001 202-230, 236-241: a call at one of the instants S
NextTwoFromFrequenciesAt(S) ==
    /\ deployed = "frequencies"
    /\ \E n \in S :
        /\ n >= clock.sec
        /\ clock' = [clock EXCEPT !.sec = n]
        /\ out' = [fn |-> "nextTwoFromFrequencies", now |-> n,
                   windows |-> WindowsToday,
                   times |-> nextTwoFromFrequencies(n, WindowsToday),
                   before |-> NoOut]
    /\ UNCHANGED <<deployed, feed, listening, GTFS, cache, reqs, gtfs>>

\* server.js 559-599: a call at one of the instants S
ComputeNextTwoDeparturesAt(S) ==
    /\ deployed = "cache"
    /\ cache.ymd = clock.ymd
    /\ \E n \in S :
        /\ n >= clock.sec
        /\ clock' = [clock EXCEPT !.sec = n]
        /\ out' = [fn |-> "computeNextTwoDepartures", now |-> n,
                   windows |-> cache.freqBlocks,
                   times |-> computeNextTwoDepartures(n, cache.freqBlocks),
                   before |-> NoOut]
    /\ UNCHANGED <<deployed, feed, listening, GTFS, cache, reqs, gtfs>>

LateNextTwoFromFrequencies == NextTwoFromFrequenciesAt(LateInstants)
LateComputeNextTwoDepartures == ComputeNextTwoDeparturesAt(LateInstants)

NextLate ==
    \/ CallRebuildCacheIfNeeded
    \/ LateNextTwoFromFrequencies
    \/ LateComputeNextTwoDepartures

SpecLate == InitLate /\ [][NextLate]_vars

\* the departures of one frequency row, in seconds counted from 00:00:00
\* without reduction (25:10:00 is 90600)
RowDepartures(f) ==
    LET from == (f.start_time[1] * 60 + f.start_time[2]) * 60 + f.start_time[3]
        to == (f.end_time[1] * 60 + f.end_time[2]) * 60 + f.end_time[3]
    IN  {from + k * f.headway_secs : k \in 0..((to - from) \div f.headway_secs)}

\* the departures of the frequency rows at or after now
LateDepartures ==
    {t \in UNION {RowDepartures(f) : f \in Range(frequencies)} : t >= out.now}

\* C12: times from 86400 on are kept as they are: every time reported is a
\* departure of a window unreduced, the times are in ascending order, the
\* first is the earliest departure left (so a departure at or after 86400
\* comes after every one below 86400), and the window 85800..90600 every
\* 600 s alone at now = 86100 gives exactly 86400 and 87000.
C12_PastMidnight ==
    out.fn \in Projectors =>
        /\ \A i \in 1..Len(out.times) : out.times[i] \in LateDepartures
        /\ Len(out.times) = 2 => out.times[1] < out.times[2]
        /\ LateDepartures # {} =>
              /\ out.times # <<>>
              /\ \A t \in LateDepartures : out.times[1] <= t
        /\ (frequencies = <<Freq("T1", <<23, 50, 0>>, <<25, 10, 0>>, 600)>>
                /\ out.now = 86100)
              => out.times = <<86400, 87000>>

\* computeNextTwoDepartures at 23:55:00 on the window 85800..90600
C12_Witness ==
    /\ out.fn = "computeNextTwoDepartures"
    /\ out.now = 86100
    /\ frequencies = <<Freq("T1", <<23, 50, 0>>, <<25, 10, 0>>, 600)>>
    /\ out.times = <<86400, 87000>>

----------------------------------------------------------------------------
(* SpecFixture: one rule WD (Monday to Friday, 20240101..20241231), one    *)
(* trip T1 of WD, one window 06:00:00-24:00:00 every 5 min, queried on     *)
(* Wednesday 20240103.                                                     *)

FixtureInstants ==
    {21000, 21600, 21601, 21899, 21900, 21901, 22200, 22500, 86100, 86399}

WD == Rule("WD", 20240101, 20241231,
           {"monday", "tuesday", "wednesday", "thursday", "friday"})

FixtureTrip == Trip("T1", "4", "WD", "0", "Berri-UQAM")

InitFixture ==
    /\ Idle
    /\ deployed \in {"cache", "frequencies"}
    /\ calendar = <<WD>>
    /\ calendarDates = <<>>
    /\ trips \in {<<Trip("T1", r, "WD", d, "Berri-UQAM")>> :
                     r \in {"4", "1"}, d \in {"0", "1"}}
    /\ frequencies = <<Freq("T1", <<6, 0, 0>>, <<24, 0, 0>>, 300)>>
    /\ stopTimes = <<>>

FixtureNextTwoFromFrequencies == NextTwoFromFrequenciesAt(FixtureInstants)
FixtureComputeNextTwoDepartures == ComputeNextTwoDeparturesAt(FixtureInstants)

NextFixture ==
    \/ CallRebuildCacheIfNeeded
    \/ FixtureNextTwoFromFrequencies
    \/ FixtureComputeNextTwoDepartures

SpecFixture == InitFixture /\ [][NextFixture]_vars

\* C13: with the rule WD, the trip T1 of route 4 and the window 21600..86400
\* every 300 s, a query on a Wednesday at now = 21900 gives the two
\* candidates 22200 and 22500.
C13_Fixture ==
    (out.fn \in Projectors /\ trips = <<FixtureTrip>> /\ out.now = 21900)
        => out.times = <<22200, 22500>>

----------------------------------------------------------------------------
(* SpecRound: a projection, then the projection again at the instant of a  *)
(* departure it reported.                                                  *)

InitRound ==
    /\ Idle
    /\ \/ InitWindows /\ deployed \in {"cache", "frequencies"}
       \/ InitStops /\ deployed = "stoptime"

\* the projection of the deployed variant at nowSec: nextTwoDepartures
\* (server.js 248-290, 297-305), computeNextTwoDepartures (559-607) or
\* nextTwoFromFrequencies (part_001 202-230, 253)
Projection(nowSec, back) ==
    LET wk == weekdayToCalendarField(WeekdayShort(clock.ymd))
        times == CASE deployed = "stoptime" ->
                        nextTwoTimes(GTFS, nowSec, clock.ymd, wk)
                   [] deployed = "cache" ->
                        computeNextTwoDepartures(nowSec, cache.freqBlocks)
                   [] OTHER -> nextTwoFromFrequencies(nowSec, WindowsToday)
        deltas == IF deployed = "stoptime"
                  THEN nextTwoDepartures(GTFS, nowSec, clock.ymd, wk)
                  ELSE [i \in 1..Len(times) |-> times[i] - nowSec]
        labels == [i \in 1..Len(times) |->
                    CASE deployed = "stoptime" -> formatDeltaToLabel(deltas[i])
                      [] deployed = "cache" ->
                            formatAsArriveOrMinutes(times[i], nowSec)
                      [] OTHER -> formatNext(deltas[i])]
    IN  [fn |-> "projection", now |-> nowSec, times |-> times,
         deltas |-> deltas, labels |-> labels, back |-> back]

Ready ==
    CASE deployed = "stoptime" -> listening
      [] deployed = "cache" -> cache.ymd = clock.ymd
      [] OTHER -> TRUE

\* a projection at an instant of the day
Project ==
    /\ Ready
    /\ \E n \in Instants :
        /\ n >= clock.sec
        /\ clock' = [clock EXCEPT !.sec = n]
        /\ out' = Projection(n, -1)
    /\ UNCHANGED <<deployed, feed, listening, GTFS, cache, reqs, gtfs>>

\* the projection again when the clock reaches now + delta of a departure
\* just reported
ProjectAgain ==
    /\ Ready
    /\ out.fn = "projection"
    /\ \E i \in 1..Len(out.deltas) :
        LET n == out.now + out.deltas[i]
        IN  /\ n < SecondsPerDay
            /\ clock' = [clock EXCEPT !.sec = n]
            /\ out' = Projection(n, out.times[i])
    /\ UNCHANGED <<deployed, feed, listening, GTFS, cache, reqs, gtfs>>

NextRound == Boot \/ CallRebuildCacheIfNeeded \/ Project \/ ProjectAgain

SpecRound == InitRound /\ [][NextRound]_vars

\* C14: a projection run again on the same snapshot at now + d, d being the
\* delta of a departure it reported, reports that same departure first, with
\* delta 0 and the label "Arrive".
C14_RoundTrip ==
    (out.fn = "projection" /\ out.back >= 0) =>
        /\ out.times # <<>>
        /\ out.times[1] = out.back
        /\ out.deltas[1] = 0
        /\ out.labels[1] = Arrive

\* nextTwoDepartures again at the instant of the second departure it had
\* reported, a later entry being left
C14_Witness ==
    /\ deployed = "stoptime"
    /\ out.fn = "projection" /\ out.back = 60 /\ out.now = 60
    /\ out.times = <<60, 120>>

----------------------------------------------------------------------------
(* SpecBoot: the boot of "stoptime" succeeds or fails, then GET /next.     *)

InitBoot == Idle /\ InitStops /\ deployed = "stoptime"

\* server.js 348-363: the download or the index build throws; the catch
\* logs, GTFS stays as declared (35-44) and the server listens
BootFails ==
    /\ deployed = "stoptime"
    /\ ~listening
    /\ listening' = TRUE
    /\ UNCHANGED <<deployed, clock, feed, GTFS, cache, reqs, gtfs, out>>

NextBoot == Boot \/ BootFails \/ NextStoptime

SpecBoot == InitBoot /\ [][NextBoot]_vars

\* C15: after a failed boot of the stop-time variant every GET /next answers
\* "Données indisponibles", not "Hors période de service" and not departures.
C15_BootFailed ==
    (out.fn = "stoptime" /\ ~GTFS.loaded) => out.lines[1] = Indispo

----------------------------------------------------------------------------
(* SpecBurst: the stop-time variant on a service that has up to MaxBurst   *)
(* entries one second apart, followed by later entries.                    *)

MaxBurst == 7

Burst(k) == [i \in 1..k |-> StopTime("T1", STOP_ID, <<0, 0, 29 + i>>)]

LaterPool ==
    {StopTime("T1", STOP_ID, <<0, 1, 0>>), StopTime("T2", STOP_ID, <<0, 0, 45>>),
     StopTime("T1", STOP_ID, <<0, 2, 0>>)}

InitBurst ==
    /\ Idle
    /\ deployed = "stoptime"
    /\ calendar = <<Running("S1"), Running("S2")>>
    /\ calendarDates = <<>>
    /\ trips = <<T1, T2>>
    /\ frequencies = <<>>
    /\ stopTimes \in {Burst(k) \o later :
                         k \in 0..MaxBurst, later \in SeqsUpTo(LaterPool, 2)}

NextBurst == Boot \/ NextStoptime

SpecBurst == InitBurst /\ [][NextBurst]_vars

\* all the entries, at or after now, of the services active today
EntriesLeft ==
    {t \in UNION {Range(GTFS.departuresByService[s]) :
                    s \in DOMAIN GTFS.departuresByService
                        \cap activeServiceIdsForToday(
                                GTFS.calendar, GTFS.calendarDates, out.ymd,
                                weekdayToCalendarField(WeekdayShort(out.ymd)))} :
        t >= out.now}

\* the reference: the earliest entry left, then the earliest entry more than
\* 10 seconds after it
ReferenceTwo ==
    IF EntriesLeft = {} THEN <<>>
    ELSE LET d1 == CHOOSE d \in EntriesLeft : \A e \in EntriesLeft : d <= e
             R == {d \in EntriesLeft : d - d1 > 10}
         IN  IF R = {} THEN <<d1>>
             ELSE <<d1, CHOOSE d \in R : \A e \in R : d <= e>>

\* C18: nextTwoDepartures returns the deltas of the reference that sorts all
\* the entries at or after now of the active services, drops each one within
\* 10 seconds of the last kept, and keeps the first two; the limit of 6
\* entries per service changes nothing.
C18_SameAsReference ==
    out.fn = "stoptime" =>
        /\ out.times = ReferenceTwo
        /\ out.deltas = [i \in 1..Len(ReferenceTwo) |-> ReferenceTwo[i] - out.now]

----------------------------------------------------------------------------
(* SpecFail: GET /next of "cache" one request at a time, a download of the *)
(* rebuild possibly failing.                                               *)

AloneArriveFresh == reqs = <<>> /\ ArriveFresh
AloneArriveStale == reqs = <<>> /\ ArriveStale

NextFail ==
    \/ AloneArriveFresh
    \/ AloneArriveStale
    \/ DownloadCalendar
    \/ DownloadCalendarDates
    \/ DownloadTrips
    \/ DownloadFrequencies
    \/ Finish
    \/ DownloadFails
    \/ Midnight

SpecFail == InitRace /\ [][NextFail]_vars

\* C19: when no rebuild is running, a cache that counts as fresh for today is
\* a complete one: a rebuild that threw does not leave its empty or
\* half-built cache marked fresh, and no request answers from such a cache.
C19_FailedRebuildNotFresh ==
    /\ (reqs = <<>> /\ cacheFresh(cache, clock.ymd, DateNow(clock)))
          => Complete(cache)
    /\ (out.fn = "next" /\ out.lines[1] = Hors) => Complete(out.read)

----------------------------------------------------------------------------
(* SpecClock: requests of the last seconds of Wednesday 20240103, each     *)
(* clock read of a request taken apart: the clock may pass a second, and   *)
(* midnight, between two reads.                                            *)

LastSeconds == {86398, 86399}

InitClock ==
    /\ clock \in {[ymd |-> 20240103, sec |-> n] : n \in LastSeconds}
    /\ routes = Routes4
    /\ listening = FALSE
    /\ GTFS = InitialGTFS
    /\ cache = InitialCache
    /\ reqs = <<>>
    /\ gtfs = InitialGtfs
    /\ out = NoOut
    /\ deployed \in {"stoptime", "cache"}
    /\ calendar \in Calendars
    /\ calendarDates = <<>>
    /\ trips = <<T1, T2>>
    /\ frequencies = <<>>
    /\ stopTimes = <<>>

\* server.js 249-250, 221-222: nextTwoDepartures reads the seconds, then
\* activeServiceIdsForToday reads the date, then the weekday
ReadsOfNextTwoDepartures ==
    /\ deployed = "stoptime"
    /\ listening
    /\ clock.ymd = 20240103
    /\ \E a \in Advances, b \in Advances :
        LET c1 == clock
            c2 == AdvanceClock(c1, a)
            c3 == AdvanceClock(c2, b)
            weekdayKey == weekdayToCalendarField(WeekdayShort(c3.ymd))
        IN  /\ clock' = c3
            /\ out' = [fn |-> "request", nowSec |-> c1.sec, ymdOfNow |-> c1.ymd,
                       today |-> c2.ymd, weekdayKey |-> weekdayKey,
                       active |-> activeServiceIdsForToday(
                                     GTFS.calendar, GTFS.calendarDates,
                                     c2.ymd, weekdayKey)]
    /\ UNCHANGED <<deployed, feed, listening, GTFS, cache, reqs, gtfs>>

\* server.js 484, 560: rebuildCacheIfNeeded reads the date and the weekday
\* at once, computeNextTwoDepartures reads the seconds after it
ReadsOfNextCache ==
    /\ deployed = "cache"
    /\ clock.ymd = 20240103
    /\ \E a \in Advances :
        LET c1 == clock
            c2 == AdvanceClock(c1, a)
            built == IF cacheFresh(cache, c1.ymd, DateNow(c1)) THEN cache
                     ELSE RebuildCache(calendar, calendarDates, trips, frequencies,
                                       c1.ymd, WeekdayShort(c1.ymd), DateNow(c1))
        IN  /\ clock' = c2
            /\ cache' = built
            /\ out' = [fn |-> "request", nowSec |-> c2.sec, ymdOfNow |-> c2.ymd,
                       today |-> built.ymd,
                       weekdayKey |-> weekdayToCalendarField(WeekdayShort(built.ymd)),
                       active |-> built.activeServiceIds]
    /\ UNCHANGED <<deployed, feed, listening, GTFS, reqs, gtfs>>

NextClock == Boot \/ ReadsOfNextTwoDepartures \/ ReadsOfNextCache

SpecClock == InitClock /\ [][NextClock]_vars

\* C20: the active set a request uses is the one of the date to which its
\* seconds-since-midnight belong, with that date's weekday, whatever the
\* clock does between the reads.
C20_OneInstant ==
    out.fn = "request" =>
        /\ out.today = out.ymdOfNow
        /\ out.weekdayKey = dowOf(out.ymdOfNow)
        /\ out.active = activeServiceIdsForToday(calendar, calendarDates,
                                                 out.ymdOfNow, dowOf(out.ymdOfNow))

====
